---- MODULE Spec2Model ----
(***************************************************************************)
(* Reservation and settlement core of the ticketing platform:              *)
(*   routes/tickets.js (second module of the file: the orders router),     *)
(*   config/stripe.js (src/unnamed/part_007), services/messageProcessors.js*)
(*   and config/rabbitmq.js, over the MySQL schema of SECURITY.md.         *)
(*                                                                         *)
(* The store is modelled as three tables (ticket_tiers, orders, tickets),  *)
(* functions from the primary key to the row.  A transaction's writes      *)
(* become visible at its commit; the row locks of SELECT ... FOR UPDATE    *)
(* are the variable lockHolder.  Statements issued on the pool (outside a  *)
(* transaction) are autocommitted one by one, so a handler made of two     *)
(* such statements is two steps.                                           *)
(***************************************************************************)
EXTENDS Integers, Sequences, FiniteSets, TLC

\* ------------------------------------------------------------- bounds
\* Number of POST /orders requests (each issued by its own buyer).
NReq == 2
\* Longest tickets[] array of a request (the validator allows 20).
MaxItems == 2
\* Largest quantity of a line item (the validator allows 10).
MaxQty == 2
\* Number of settlement deliveries: buyer cancels, Stripe events, queue messages.
MaxEvents == 2

\* ------------------------------------------------- program constants
\* quantity of the tier under contention (the concurrency test's tier).
TierQuantity == 2
\* price of a tier, in whole currency units.
TierPrice == 100
\* The instant `new Date()` returns during the run, and dates around it.
Now == 5
Past == 1
Future == 9
\* A DATETIME column that is NULL (falsy in the sales-date checks).
NullDate == 0
\* HTTP status codes the handlers answer with.
Created == 201
Ok == 200
BadRequest == 400
NotFound == 404
ServerError == 500
\* No response written yet.
NoStatus == 0

\* SQL NULL in a column whose values are modelled as tuples.
Null == <<>>

Reqs == 1 .. NReq
\* req.user.id of request slot r: every request comes from its own buyer.
Users == Reqs
TierIds == {1, 2}
\* ids an order can get (AUTO_INCREMENT), and ids an event can name.
OrderIds == 1 .. NReq
EventIds == {1, 2}
\* events.status of the two events: only event 1 is on sale.
EventStatus == (1 :> "published") @@ (2 :> "draft")

\* ids a ticket can get (AUTO_INCREMENT).
TicketIds == 1 .. NReq * MaxItems * MaxQty

\* One element of req.body.tickets (attendee fields do not influence the flow).
LineItems == [tierId : TierIds, quantity : 1 .. MaxQty]

VARIABLES
  tiers,        \* ticket_tiers: id -> row
  orders,       \* orders: id -> row (committed rows only)
  tickets,      \* tickets: id -> row (committed rows only)
  nextOrderId,  \* AUTO_INCREMENT of orders
  nextTicketId, \* AUTO_INCREMENT of tickets
  lockHolder,   \* tier id -> request holding its FOR UPDATE row lock, 0 = free
  req,          \* request slot -> state of its POST /orders handler
  cancelTx,     \* order id -> cancel transactions past the status check
  releaseTx,    \* order id -> failure handlers between their two UPDATEs
  emailQ,       \* order id -> order_confirmation messages in email_notifications
  ticketQ,      \* order id -> messages in ticket_generation
  nEvents,      \* settlement deliveries so far
  queueTx,      \* order id -> 'payment_failed' consumers between their two UPDATEs
  answer,       \* the last answer of the cancel, webhook or tier route
  tierTx,       \* tier id -> price of a PUT /tiers/:id past its checks, 0 = none
  acct,         \* user id -> "active", "deleting" (DELETE /account past its checks), "deleted"
  validateTx,   \* ticket id -> check-in requests between their SELECT and their UPDATE
  clock         \* the instant NOW() returns at the next check-in UPDATE

vars == <<tiers, orders, tickets, nextOrderId, nextTicketId, lockHolder, req,
          cancelTx, releaseTx, emailQ, ticketQ, nEvents, queueTx, answer, tierTx, acct,
          validateTx, clock>>

store == <<tiers, orders, tickets, nextOrderId, nextTicketId>>
queues == <<emailQ, ticketQ>>
settle == <<cancelTx, releaseTx, nEvents, queueTx, answer>>
admin == <<tierTx, acct>>
checkin == <<validateTx, clock>>

\* An answer: the route and the HTTP status.
Answer(route, code) == <<route, code>>

\* ---------------------------------------------------------------- rows
TierRow(ev, active, start, end) ==
  [event_id |-> ev, is_active |-> active, price |-> TierPrice,
   quantity |-> TierQuantity, sold_quantity |-> 0,
   sales_start_date |-> start, sales_end_date |-> end]

\* The tiers a run can start with: tier 1 is on sale; tier 2 is on sale,
\* inactive, of another event, not yet on sale, or no longer on sale.
Tier2Rows ==
  { TierRow(1, TRUE, NullDate, NullDate),
    TierRow(1, FALSE, NullDate, NullDate),
    TierRow(2, TRUE, NullDate, NullDate),
    TierRow(1, TRUE, Future, NullDate),
    TierRow(1, TRUE, Past, Past) }

\* validated is the number of line items that had passed when the request was
\* refused: kept for the record, the handler stores no such thing.
IdleReq ==
  [pc |-> "idle", eventId |-> 0, tickets |-> <<>>, totalAmount |-> 0,
   ticketTierUpdates |-> <<>>, orderId |-> 0, status |-> NoStatus, validated |-> 0]

Init ==
  /\ \E row2 \in Tier2Rows :
       tiers = (1 :> TierRow(1, TRUE, Past, Future)) @@ (2 :> row2)
  /\ orders = <<>>
  /\ tickets = <<>>
  /\ nextOrderId = 1
  /\ nextTicketId = 1
  /\ lockHolder = [t \in TierIds |-> 0]
  /\ req = [r \in Reqs |-> IdleReq]
  /\ cancelTx = [o \in OrderIds |-> 0]
  /\ releaseTx = [o \in OrderIds |-> 0]
  /\ emailQ = [o \in OrderIds |-> 0]
  /\ ticketQ = [o \in OrderIds |-> 0]
  /\ nEvents = 0
  /\ queueTx = [o \in OrderIds |-> 0]
  /\ answer = Answer("none", NoStatus)
  /\ tierTx = [t \in TierIds |-> 0]
  /\ acct = [u \in Users |-> "active"]
  /\ validateTx = [k \in TicketIds |-> 0]
  /\ clock = Now

\* ------------------------------------------------- POST /orders (create)
\* A rollback that leaves the transaction's row locks in place.
KeepLocks(r) == lockHolder

\* connection.rollback() / connection.commit(): the transaction's row locks go.
ReleaseLocks(r) == [t \in TierIds |-> IF lockHolder[t] = r THEN 0 ELSE lockHolder[t]]

\* The handler answers `code` and returns: its locals are gone.
Respond(r, code, o) == [IdleReq EXCEPT !.pc = "done", !.status = code, !.orderId = o]

\* SELECT * FROM events WHERE id = ? AND status = "published"
EventAvailable(ev) == ev \in DOMAIN EventStatus /\ EventStatus[ev] = "published"

\* beginTransaction and the event lookup for eventId ev: 404 when the event is
\* not on sale.
BeginOrder(r, ev) ==
  /\ req[r].pc = "idle"
  /\ IF EventAvailable(ev)
       THEN req' = [req EXCEPT ![r] = [IdleReq EXCEPT !.pc = "lock", !.eventId = ev]]
       ELSE req' = [req EXCEPT ![r] = Respond(r, NotFound, 0)]
  /\ UNCHANGED <<store, lockHolder, queues, settle, admin, checkin>>

PostOrder(r) == \E ev \in EventIds : BeginOrder(r, ev)

\* The tier read by a plain SELECT (no FOR UPDATE): it waits for nobody.
SelectWithoutLock(t, r) == TRUE

\* FOR UPDATE gets the row lock of tier t for request r once no other
\* transaction holds it.
RowLockFree(t, r) == lockHolder[t] \in {0, r}

\* The tier looked up by id and is_active alone, whatever its event.
TierSelectedInAnyEvent(t, ev) == t \in DOMAIN tiers /\ tiers[t].is_active

\* SELECT ... WHERE id = ? AND event_id = ? AND is_active = TRUE
TierSelected(t, ev) ==
  t \in DOMAIN tiers /\ tiers[t].event_id = ev /\ tiers[t].is_active

\* tier.sold_quantity + ticket.quantity > tier.quantity
NotEnough(tier, q) == tier.sold_quantity + q > tier.quantity

\* The two sales-date checks against `new Date()`.
SalesClosed(tier) ==
  \/ tier.sales_start_date # NullDate /\ tier.sales_start_date > Now
  \/ tier.sales_end_date # NullDate /\ tier.sales_end_date < Now

\* The line item fails one of the loop's checks.
ItemRejected(t, ev, q) ==
  \/ ~TierSelected(t, ev)
  \/ NotEnough(tiers[t], q)
  \/ SalesClosed(tiers[t])

\* INSERT INTO orders (...): status takes its column default, 'pending'.
OrderRow(user, ev, total) ==
  [user_id |-> user, event_id |-> ev, total_amount |-> total, status |-> "pending",
   stripe_payment_intent_id |-> Null, stripe_session_id |-> Null]

\* The loop of UPDATEs counting one seat per line item instead of its quantity.
RECURSIVE UpdateSoldPerItem(_, _)
UpdateSoldPerItem(tr, ups) ==
  IF ups = <<>> THEN tr
  ELSE UpdateSoldPerItem([tr EXCEPT ![Head(ups).tierId].sold_quantity = @ + 1], Tail(ups))

\* The loop of UPDATE ticket_tiers SET sold_quantity = sold_quantity + ? WHERE id = ?
RECURSIVE UpdateSold(_, _)
UpdateSold(tr, ups) ==
  IF ups = <<>> THEN tr
  ELSE UpdateSold([tr EXCEPT ![Head(ups).tierId].sold_quantity = @ + Head(ups).quantity],
                  Tail(ups))

\* The tier of each ticket row the nested insert loops create, in insertion order.
RECURSIVE TicketTiers(_)
TicketTiers(ts) ==
  IF ts = <<>> THEN <<>>
  ELSE [i \in 1 .. Head(ts).quantity |-> Head(ts).tierId] \o TicketTiers(Tail(ts))

\* `TKT-${uuidv4().toUpperCase()}`: uuid n is the n-th one drawn, all distinct.
TicketCode(n) == <<"TKT", n>>

\* INSERT INTO tickets (...): status 'active' by default, used_at and qr_code NULL.
TicketRow(o, t, n) ==
  [order_id |-> o, ticket_tier_id |-> t, ticket_code |-> TicketCode(n),
   status |-> "active", used_at |-> NullDate, qr_code |-> Null]

\* The ticket rows of one order, keyed by their AUTO_INCREMENT ids from `first`.
NewTickets(o, ts, first) ==
  LET seq == TicketTiers(ts)
  IN [k \in first .. first + Len(seq) - 1 |-> TicketRow(o, seq[k - first + 1], k)]

\* The validation loop run without a transaction (autocommit): the UPDATE of
\* sold_quantity follows each passing item at once and no rollback undoes it.
ReserveItemOnPool(r, item, last) ==
  /\ req[r].pc = "lock"
  /\ lockHolder[item.tierId] \in {0, r}
  /\ LET t == item.tierId
     IN IF ItemRejected(t, req[r].eventId, item.quantity)
          THEN /\ req' = [req EXCEPT ![r] = Respond(r, BadRequest, 0)]
               /\ lockHolder' = ReleaseLocks(r)
               /\ tiers' = tiers
          ELSE /\ req' = [req EXCEPT ![r] =
                    [@ EXCEPT !.tickets = Append(@, item),
                              !.totalAmount = @ + tiers[t].price * item.quantity,
                              !.pc = IF last THEN "write" ELSE "lock"]]
               /\ lockHolder' = [lockHolder EXCEPT ![t] = r]
               /\ tiers' = [tiers EXCEPT ![t].sold_quantity = @ + item.quantity]
  /\ UNCHANGED <<orders, tickets, nextOrderId, nextTicketId, queues, settle, admin, checkin>>

\* A line item counted at the tier's price whatever its quantity.
LineAmountOfOne(tier, q) == tier.price

\* tier.price * ticket.quantity, the line item's part of totalAmount.
LineAmount(tier, q) == tier.price * q

\* One turn of the validation loop for line item `item`, the last of the body
\* or not: lock the tier row (waiting while another transaction holds it), then
\* the checks.  The first failing check rolls back and answers 400; a passing
\* item is added to the total and to ticketTierUpdates; after the last item the
\* handler goes on to its writes.  req[r].tickets holds the items read so far.
ReserveItem(r, item, last) ==
  /\ req[r].pc = "lock"
  /\ RowLockFree(item.tierId, r)
  /\ LET t == item.tierId
     IN IF ItemRejected(t, req[r].eventId, item.quantity)
          THEN /\ req' = [req EXCEPT ![r] =
                    [Respond(r, BadRequest, 0) EXCEPT !.validated = Len(req[r].tickets)]]
               /\ lockHolder' = ReleaseLocks(r)
          ELSE /\ req' = [req EXCEPT ![r] =
                    [@ EXCEPT !.tickets = Append(@, item),
                              !.totalAmount = @ + LineAmount(tiers[t], item.quantity),
                              !.ticketTierUpdates =
                                 Append(@, [tierId |-> t, quantity |-> item.quantity,
                                            price |-> tiers[t].price]),
                              !.pc = IF last THEN "write" ELSE "lock"]]
               /\ lockHolder' = [lockHolder EXCEPT ![t] = r]
  /\ UNCHANGED <<store, queues, settle, admin, checkin>>

\* Any body validateOrderCreation lets through, within the bounds.
ValidateTickets(r) ==
  \E item \in LineItems, last \in BOOLEAN :
    /\ Len(req[r].tickets) + 1 = MaxItems => last
    /\ ReserveItem(r, item, last)

\* What the request answers after its commit: createCheckoutSession returns
\* (201 with the checkout URL) or throws (the catch block answers 500; its
\* rollback finds nothing to undo).
AfterCommit(sessionCreated) == IF sessionCreated THEN Created ELSE ServerError

\* (The INSERT of the order fails on its foreign key once the buyer's users
\* row is deleted: StoreError is then the only way on.)
\* The rest of the handler once every line item has passed: the order row, the
\* sold quantities, the ticket rows, the commit (the writes become visible and
\* the row locks go), then the checkout session and the answer.
CommitOrder(r) ==
  /\ req[r].pc = "write"
  /\ acct[r] # "deleted"
  /\ LET o == nextOrderId
         new == NewTickets(o, req[r].tickets, nextTicketId)
     IN /\ orders' = orders @@ (o :> OrderRow(r, req[r].eventId, req[r].totalAmount))
        /\ tiers' = UpdateSold(tiers, req[r].ticketTierUpdates)
        /\ tickets' = tickets @@ new
        /\ nextOrderId' = o + 1
        /\ nextTicketId' = nextTicketId + Cardinality(DOMAIN new)
        /\ \E sessionCreated \in BOOLEAN :
             req' = [req EXCEPT ![r] = Respond(r, AfterCommit(sessionCreated), o)]
  /\ lockHolder' = ReleaseLocks(r)
  /\ UNCHANGED <<queues, settle, admin, checkin>>

\* A statement of the transaction throws (lock wait timeout, deadlock victim,
\* lost connection): the catch block rolls back and answers 500.
StoreError(r) ==
  /\ req[r].pc \in {"lock", "write"}
  /\ req' = [req EXCEPT ![r] = Respond(r, ServerError, 0)]
  /\ lockHolder' = ReleaseLocks(r)
  /\ UNCHANGED <<store, queues, settle, admin, checkin>>

\* ------------------------------------------------------- compensation
\* UPDATE ticket_tiers tt JOIN tickets t ON tt.id = t.ticket_tier_id
\*    SET tt.sold_quantity = tt.sold_quantity - 1 WHERE t.order_id = ?
\* A multiple-table UPDATE changes each matching tier row once, however many
\* ticket rows of the order join it; sold_quantity is a signed INT.
ReleaseReservedTickets(tr, tk, o) ==
  [t \in DOMAIN tr |->
     IF \E k \in DOMAIN tk : tk[k].order_id = o /\ tk[k].ticket_tier_id = t
       THEN [tr[t] EXCEPT !.sold_quantity = @ - 1]
       ELSE tr[t]]

\* The tier rows that UPDATE writes, and so has to lock.
TiersOfOrder(o) == {tickets[k].ticket_tier_id : k \in {j \in DOMAIN tickets : tickets[j].order_id = o}}

\* A row lock held by a reservation makes the UPDATE wait.
TiersFree(o) == \A t \in TiersOfOrder(o) : lockHolder[t] = 0

\* UPDATE orders SET status = ? WHERE id = ? (no row: nothing changes).
SetStatus(os, o, st) ==
  IF o \in DOMAIN os THEN [os EXCEPT ![o].status = st] ELSE os

\* --------------------------------------------- POST /orders/:id/cancel
\* The checks of the cancel route without the status check.
CancelStatusOfAnyOrder(u, o) ==
  IF o \notin DOMAIN orders \/ orders[o].user_id # u THEN NotFound ELSE Ok

\* The SELECT by id and user_id and the status check: 404, 400, or go on.
CancelStatus(u, o) ==
  IF o \notin DOMAIN orders \/ orders[o].user_id # u THEN NotFound
  ELSE IF orders[o].status # "pending" THEN BadRequest
  ELSE Ok

\* The request passes the checks; its two UPDATEs are still to come.
CancelCheck(u, o) ==
  /\ nEvents < MaxEvents
  /\ CancelStatus(u, o) = Ok
  /\ cancelTx' = [cancelTx EXCEPT ![o] = @ + 1]
  /\ nEvents' = nEvents + 1
  /\ UNCHANGED <<store, lockHolder, req, queues, releaseTx, queueTx, answer, admin, checkin>>

\* The request fails one of the checks: rollback, and 404 or 400.
CancelRefuse(u, o) ==
  /\ nEvents < MaxEvents
  /\ CancelStatus(u, o) # Ok
  /\ answer' = Answer("cancel", CancelStatus(u, o))
  /\ nEvents' = nEvents + 1
  /\ UNCHANGED <<store, lockHolder, req, queues, cancelTx, releaseTx, queueTx, admin, checkin>>

\* UPDATE orders SET status = "cancelled", the release of the tickets, commit.
CancelCommit(o) ==
  /\ cancelTx[o] > 0
  /\ TiersFree(o)
  /\ orders' = SetStatus(orders, o, "cancelled")
  /\ tiers' = ReleaseReservedTickets(tiers, tickets, o)
  /\ cancelTx' = [cancelTx EXCEPT ![o] = @ - 1]
  /\ answer' = Answer("cancel", Ok)
  /\ UNCHANGED <<tickets, nextOrderId, nextTicketId, lockHolder, req, queues,
                 releaseTx, nEvents, queueTx, admin, checkin>>

\* One of the UPDATEs throws: rollback, 500.
CancelError(o) ==
  /\ cancelTx[o] > 0
  /\ cancelTx' = [cancelTx EXCEPT ![o] = @ - 1]
  /\ answer' = Answer("cancel", ServerError)
  /\ UNCHANGED <<store, lockHolder, req, queues, releaseTx, nEvents, queueTx, admin, checkin>>

\* ------------------------------------------------- PUT /tickets/tiers/:id
\* The price the organizer can put (the other fields of the body are left out:
\* COALESCE keeps the column).
NewPrice == 150
Prices == {TierPrice, NewPrice}

\* The tier is read on the pool, without a lock: 404, 400 when it has sold
\* tickets, or go on to the UPDATE.
PutTierStatus(t) ==
  IF t \notin DOMAIN tiers THEN NotFound
  ELSE IF tiers[t].sold_quantity > 0 THEN BadRequest
  ELSE Ok

PutTierCheck(t, price) ==
  /\ nEvents < MaxEvents
  /\ tierTx[t] = 0
  /\ IF PutTierStatus(t) = Ok
       THEN tierTx' = [tierTx EXCEPT ![t] = price] /\ answer' = answer
       ELSE tierTx' = tierTx /\ answer' = Answer("tier", PutTierStatus(t))
  /\ nEvents' = nEvents + 1
  /\ UNCHANGED <<store, lockHolder, req, queues, cancelTx, releaseTx, queueTx, acct, checkin>>

\* UPDATE ticket_tiers SET ... price = COALESCE(?, price) ... WHERE id = ?
\* It waits while a reservation holds the row lock.
PutTierUpdate(t) ==
  /\ tierTx[t] # 0
  /\ lockHolder[t] = 0
  /\ tiers' = [tiers EXCEPT ![t].price = tierTx[t]]
  /\ tierTx' = [tierTx EXCEPT ![t] = 0]
  /\ answer' = Answer("tier", Ok)
  /\ UNCHANGED <<orders, tickets, nextOrderId, nextTicketId, lockHolder, req, queues,
                 cancelTx, releaseTx, nEvents, queueTx, acct, checkin>>

\* The UPDATE throws: 500.
PutTierError(t) ==
  /\ tierTx[t] # 0
  /\ tierTx' = [tierTx EXCEPT ![t] = 0]
  /\ answer' = Answer("tier", ServerError)
  /\ UNCHANGED <<store, lockHolder, req, queues, cancelTx, releaseTx, nEvents, queueTx, acct, checkin>>

\* ------------------------------------ DELETE /users/account, data cleanup
\* The rows left once the orders in `gone` are deleted; ON DELETE CASCADE
\* deletes their tickets with them.
OrdersWithout(os, gone) == [o \in DOMAIN os \ gone |-> os[o]]
TicketsWithout(tk, gone) == [k \in {j \in DOMAIN tk : tk[j].order_id \notin gone} |-> tk[k]]

\* SELECT COUNT(*) FROM orders WHERE user_id = ? AND status IN ("pending", "paid")
ActiveOrders(u) ==
  Cardinality({o \in DOMAIN orders :
                 orders[o].user_id = u /\ orders[o].status \in {"pending", "paid"}})

\* The password is verified and the active orders are counted, on the pool:
\* 400 when there is one, or go on to the DELETE.
DeleteAccountCheck(u) ==
  /\ nEvents < MaxEvents
  /\ acct[u] = "active"
  /\ IF ActiveOrders(u) > 0
       THEN acct' = acct /\ answer' = Answer("account", BadRequest)
       ELSE acct' = [acct EXCEPT ![u] = "deleting"] /\ answer' = answer
  /\ nEvents' = nEvents + 1
  /\ UNCHANGED <<store, lockHolder, req, queues, cancelTx, releaseTx, queueTx, tierTx, checkin>>

\* DELETE FROM users WHERE id = ?: the user's orders go by cascade, and their
\* tickets with them.
DeleteAccount(u) ==
  /\ acct[u] = "deleting"
  /\ LET gone == {o \in DOMAIN orders : orders[o].user_id = u}
     IN /\ orders' = OrdersWithout(orders, gone)
        /\ tickets' = TicketsWithout(tickets, gone)
  /\ acct' = [acct EXCEPT ![u] = "deleted"]
  /\ answer' = Answer("account", Ok)
  /\ UNCHANGED <<tiers, nextOrderId, nextTicketId, lockHolder, req, queues, cancelTx,
                 releaseTx, nEvents, queueTx, tierTx, checkin>>

\* The DELETE throws: 500.
DeleteAccountError(u) ==
  /\ acct[u] = "deleting"
  /\ acct' = [acct EXCEPT ![u] = "active"]
  /\ answer' = Answer("account", ServerError)
  /\ UNCHANGED <<store, lockHolder, req, queues, cancelTx, releaseTx, nEvents, queueTx, tierTx, checkin>>

\* cleanupExpiredData, every 6 hours: DELETE FROM orders WHERE status =
\* "cancelled" AND created_at < 30 days ago; `old` are the orders of that age.
CleanupExpiredData(old) ==
  /\ nEvents < MaxEvents
  /\ LET gone == {o \in DOMAIN orders \cap old : orders[o].status = "cancelled"}
     IN /\ orders' = OrdersWithout(orders, gone)
        /\ tickets' = TicketsWithout(tickets, gone)
  /\ nEvents' = nEvents + 1
  /\ UNCHANGED <<tiers, nextOrderId, nextTicketId, lockHolder, req, queues, cancelTx,
                 releaseTx, queueTx, answer, admin, checkin>>

\* ------------------------------------------- POST /tickets/:id/validate
\* The ticket is read on the pool, joined to its tier and event: 404 when there
\* is none, 400 when its status is 'used', or go on to the UPDATE.  (The caller
\* is the event's organizer or an admin.)
ValidateStatus(k) ==
  IF k \notin DOMAIN tickets THEN NotFound
  ELSE IF tickets[k].status = "used" THEN BadRequest
  ELSE Ok

ValidateCheck(k) ==
  /\ nEvents < MaxEvents
  /\ IF ValidateStatus(k) = Ok
       THEN validateTx' = [validateTx EXCEPT ![k] = @ + 1] /\ answer' = answer
       ELSE validateTx' = validateTx /\ answer' = Answer("validate", ValidateStatus(k))
  /\ nEvents' = nEvents + 1
  /\ UNCHANGED <<store, lockHolder, req, queues, cancelTx, releaseTx, queueTx, admin, clock>>

\* UPDATE tickets SET status = "used", used_at = NOW() WHERE id = ?
MarkUsed(tk, k, now) ==
  IF k \in DOMAIN tk THEN [tk EXCEPT ![k].status = "used", ![k].used_at = now] ELSE tk

\* The UPDATE and the answer 'Ticket validated successfully'.
ValidateUpdate(k) ==
  /\ validateTx[k] > 0
  /\ tickets' = MarkUsed(tickets, k, clock)
  /\ clock' = clock + 1
  /\ validateTx' = [validateTx EXCEPT ![k] = @ - 1]
  /\ answer' = Answer("validate", Ok)
  /\ UNCHANGED <<tiers, orders, nextOrderId, nextTicketId, lockHolder, req, queues,
                 cancelTx, releaseTx, nEvents, queueTx, admin>>

\* The UPDATE throws: 500.
ValidateError(k) ==
  /\ validateTx[k] > 0
  /\ validateTx' = [validateTx EXCEPT ![k] = @ - 1]
  /\ answer' = Answer("validate", ServerError)
  /\ UNCHANGED <<store, lockHolder, req, queues, cancelTx, releaseTx, nEvents, queueTx,
                 admin, clock>>

\* ------------------------------------------- POST /orders/webhook/stripe
\* paymentIntent.id of the event for order o.
PaymentIntentId(o) == <<"pi", o>>
\* session.id of the checkout session of order o.
SessionId(o) == <<"cs", o>>

\* UPDATE orders SET status = "paid", stripe_payment_intent_id = ? WHERE id = ?
MarkPaid(os, o) ==
  IF o \in DOMAIN os
    THEN [os EXCEPT ![o].status = "paid", ![o].stripe_payment_intent_id = PaymentIntentId(o)]
    ELSE os

\* The confirmation e-mail published without looking whether the order row
\* was found.
PublishedEmailsUnchecked(os, o, sent) == IF sent >= 1 THEN 1 ELSE 0

\* The messages handlePaymentSuccess publishes when `sent` publishMessage
\* calls succeed before one throws (2: none throws): first the confirmation
\* e-mail, then the ticket generation; nothing when the order row is not found.
PublishedEmails(os, o, sent) == IF o \in DOMAIN os /\ sent >= 1 THEN 1 ELSE 0
PublishedTicketJobs(os, o, sent) == IF o \in DOMAIN os /\ sent >= 2 THEN 1 ELSE 0

\* payment_intent.succeeded: handlePaymentSuccess catches whatever it throws,
\* so handleWebhook answers {received: true}.
PaymentSuccess(o, sent) ==
  /\ nEvents < MaxEvents
  /\ orders' = MarkPaid(orders, o)
  /\ emailQ' = [emailQ EXCEPT ![o] = @ + PublishedEmails(orders', o, sent)]
  /\ ticketQ' = [ticketQ EXCEPT ![o] = @ + PublishedTicketJobs(orders', o, sent)]
  /\ nEvents' = nEvents + 1
  /\ answer' = Answer("webhook", Ok)
  /\ UNCHANGED <<tiers, tickets, nextOrderId, nextTicketId, lockHolder, req,
                 cancelTx, releaseTx, queueTx, admin, checkin>>

HandlePaymentSuccess(o) == \E sent \in 0 .. 2 : PaymentSuccess(o, sent)

\* The first statement of a failure handler, autocommitted on the pool:
\* UPDATE orders SET status = "cancelled" WHERE id = ?
MarkCancelled(o) ==
  /\ nEvents < MaxEvents
  /\ orders' = SetStatus(orders, o, "cancelled")
  /\ releaseTx' = [releaseTx EXCEPT ![o] = @ + 1]
  /\ nEvents' = nEvents + 1
  /\ UNCHANGED <<tiers, tickets, nextOrderId, nextTicketId, lockHolder, req, queues, cancelTx,
                 queueTx, answer, admin, checkin>>

\* payment_intent.payment_failed
HandlePaymentFailure(o) == MarkCancelled(o)
\* payment_intent.canceled
HandlePaymentCanceled(o) == MarkCancelled(o)

\* The second statement of a failure handler: the release of the tickets; the
\* handler returns and handleWebhook answers {received: true}.
ReleaseTickets(o) ==
  /\ releaseTx[o] > 0
  /\ TiersFree(o)
  /\ tiers' = ReleaseReservedTickets(tiers, tickets, o)
  /\ releaseTx' = [releaseTx EXCEPT ![o] = @ - 1]
  /\ answer' = Answer("webhook", Ok)
  /\ UNCHANGED <<orders, tickets, nextOrderId, nextTicketId, lockHolder, req, queues,
                 cancelTx, nEvents, queueTx, admin, checkin>>

\* The second statement throws: the handler logs it and returns, and
\* handleWebhook answers {received: true} all the same.
ReleaseError(o) ==
  /\ releaseTx[o] > 0
  /\ releaseTx' = [releaseTx EXCEPT ![o] = @ - 1]
  /\ answer' = Answer("webhook", Ok)
  /\ UNCHANGED <<store, lockHolder, req, queues, cancelTx, nEvents, queueTx, admin, checkin>>

\* A checkout handler that also settles the order as paid.
CheckoutCompletedMarksPaid(o) ==
  /\ nEvents < MaxEvents
  /\ orders' = IF o \in DOMAIN orders
                 THEN [orders EXCEPT ![o].stripe_session_id = SessionId(o), ![o].status = "paid"]
                 ELSE orders
  /\ nEvents' = nEvents + 1
  /\ answer' = Answer("webhook", Ok)
  /\ UNCHANGED <<tiers, tickets, nextOrderId, nextTicketId, lockHolder, req, queues,
                 cancelTx, releaseTx, queueTx, admin, checkin>>

\* checkout.session.completed: UPDATE orders SET stripe_session_id = ?
HandleCheckoutCompleted(o) ==
  /\ nEvents < MaxEvents
  /\ orders' = IF o \in DOMAIN orders
                 THEN [orders EXCEPT ![o].stripe_session_id = SessionId(o)]
                 ELSE orders
  /\ nEvents' = nEvents + 1
  /\ answer' = Answer("webhook", Ok)
  /\ UNCHANGED <<tiers, tickets, nextOrderId, nextTicketId, lockHolder, req, queues,
                 cancelTx, releaseTx, queueTx, admin, checkin>>

\* The default case of the switch: an event type with no handler is logged and
\* acknowledged.
UnhandledEvent ==
  /\ nEvents < MaxEvents
  /\ answer' = Answer("webhook", Ok)
  /\ nEvents' = nEvents + 1
  /\ UNCHANGED <<store, lockHolder, req, queues, cancelTx, releaseTx, queueTx, admin, checkin>>

\* The stripe-signature header of a delivery.
Signatures == {"valid", "forged", "missing"}

\* constructEvent accepting every header.
SignatureUnchecked(sig) == TRUE

\* stripe.webhooks.constructEvent(req.body, sig, secret) returns the event for
\* a valid signature and throws for any other.
SignatureVerified(sig) == sig = "valid"

\* constructEvent throws: 400 `Webhook Error: ...`, and nothing else.
RejectWebhook ==
  /\ nEvents < MaxEvents
  /\ answer' = Answer("webhook", BadRequest)
  /\ nEvents' = nEvents + 1
  /\ UNCHANGED <<store, lockHolder, req, queues, cancelTx, releaseTx, queueTx, admin, checkin>>

\* handleWebhook for a delivery signed sig whose event names order o.
HandleWebhook(sig, o) ==
  \/ ~SignatureVerified(sig) /\ RejectWebhook
  \/ SignatureVerified(sig) /\ HandlePaymentSuccess(o)
  \/ SignatureVerified(sig) /\ HandlePaymentFailure(o)
  \/ SignatureVerified(sig) /\ HandleCheckoutCompleted(o)
  \/ SignatureVerified(sig) /\ HandlePaymentCanceled(o)
  \/ SignatureVerified(sig) /\ UnhandledEvent

\* --------------------------------------------------- queue consumers
\* processPaymentWebhook 'payment_success': the order is set paid and the
\* confirmation e-mail published (when publishMessage throws, the consumer
\* rejects the message and the UPDATE stays).
QueuePaymentSuccess(o) ==
  /\ nEvents < MaxEvents
  /\ orders' = SetStatus(orders, o, "paid")
  /\ \E published \in BOOLEAN :
       emailQ' = [emailQ EXCEPT ![o] = @ + (IF published THEN 1 ELSE 0)]
  /\ nEvents' = nEvents + 1
  /\ UNCHANGED <<tiers, tickets, nextOrderId, nextTicketId, lockHolder, req, ticketQ,
                 cancelTx, releaseTx, queueTx, answer, admin, checkin>>

\* processPaymentWebhook 'payment_failed': its first UPDATE, on the pool.
QueuePaymentFailed(o) ==
  /\ nEvents < MaxEvents
  /\ orders' = SetStatus(orders, o, "cancelled")
  /\ queueTx' = [queueTx EXCEPT ![o] = @ + 1]
  /\ nEvents' = nEvents + 1
  /\ UNCHANGED <<tiers, tickets, nextOrderId, nextTicketId, lockHolder, req, queues, cancelTx,
                 releaseTx, answer, admin, checkin>>

\* Its second UPDATE, the release of the tickets; the message is acknowledged.
QueueRelease(o) ==
  /\ queueTx[o] > 0
  /\ TiersFree(o)
  /\ tiers' = ReleaseReservedTickets(tiers, tickets, o)
  /\ queueTx' = [queueTx EXCEPT ![o] = @ - 1]
  /\ UNCHANGED <<orders, tickets, nextOrderId, nextTicketId, lockHolder, req, queues,
                 cancelTx, releaseTx, nEvents, answer, admin, checkin>>

\* The second UPDATE throws: the consumer rethrows and consumeMessages rejects
\* the message without requeue.
QueueReleaseError(o) ==
  /\ queueTx[o] > 0
  /\ queueTx' = [queueTx EXCEPT ![o] = @ - 1]
  /\ UNCHANGED <<store, lockHolder, req, queues, cancelTx, releaseTx, nEvents, answer, admin, checkin>>

\* processPaymentWebhook 'refund_processed'
QueueRefundProcessed(o) ==
  /\ nEvents < MaxEvents
  /\ orders' = SetStatus(orders, o, "refunded")
  /\ nEvents' = nEvents + 1
  /\ UNCHANGED <<tiers, tickets, nextOrderId, nextTicketId, lockHolder, req, queues,
                 cancelTx, releaseTx, queueTx, answer, admin, checkin>>

\* A QR URL that also carries the number of the message being consumed.
QrCodeUrlOfMessage(k, code, o) == <<"qr", k, code, o, ticketQ[o]>>

\* The URL processTicketGeneration builds from {ticketId, ticketCode, eventId,
\* orderId}: the ticket rows of the message carry no event_id, so JSON.stringify
\* leaves it out.
QrCodeUrl(k, code, o) == <<"qr", k, code, o>>

\* UPDATE tickets SET qr_code = ? WHERE id = ?, for every ticket of the
\* message: the rows handlePaymentSuccess read for the order (a ticket row is
\* created with its order and its code never changes, so these are the order's
\* rows as they are now).
GenerateQrCodes(tk, o) ==
  [k \in DOMAIN tk |->
     IF tk[k].order_id = o
       THEN [tk[k] EXCEPT !.qr_code = QrCodeUrl(k, tk[k].ticket_code, o)]
       ELSE tk[k]]

\* processTicketGeneration consumes one message of ticket_generation.
ProcessTicketGeneration(o) ==
  /\ ticketQ[o] > 0
  /\ tickets' = GenerateQrCodes(tickets, o)
  /\ ticketQ' = [ticketQ EXCEPT ![o] = @ - 1]
  /\ UNCHANGED <<tiers, orders, nextOrderId, nextTicketId, lockHolder, req, emailQ, settle, admin, checkin>>

\* processTicketGeneration throws at the UPDATE of ticket `failed` (the rows
\* before it are written): the consumer rejects the message without requeue,
\* and the message is gone.
TicketGenerationError(o, failed) ==
  /\ ticketQ[o] > 0
  /\ failed \in DOMAIN tickets /\ tickets[failed].order_id = o
  /\ tickets' = [k \in DOMAIN tickets |->
                   IF k < failed THEN GenerateQrCodes(tickets, o)[k] ELSE tickets[k]]
  /\ ticketQ' = [ticketQ EXCEPT ![o] = @ - 1]
  /\ UNCHANGED <<tiers, orders, nextOrderId, nextTicketId, lockHolder, req, emailQ, settle, admin, checkin>>

\* processEmailNotification consumes one message of email_notifications.
ProcessEmailNotification(o) ==
  /\ emailQ[o] > 0
  /\ emailQ' = [emailQ EXCEPT ![o] = @ - 1]
  /\ UNCHANGED <<store, lockHolder, req, ticketQ, settle, admin, checkin>>

\* ------------------------------------------------------ specification
Reservation ==
  \E r \in Reqs : PostOrder(r) \/ ValidateTickets(r) \/ CommitOrder(r) \/ StoreError(r)

Cancellation ==
  \E o \in OrderIds :
    \/ \E u \in Users : CancelCheck(u, o) \/ CancelRefuse(u, o)
    \/ CancelCommit(o)
    \/ CancelError(o)

Webhook == \E sig \in Signatures, o \in OrderIds : HandleWebhook(sig, o)

Consumers ==
  \E o \in OrderIds :
    \/ QueuePaymentSuccess(o)
    \/ QueuePaymentFailed(o)
    \/ QueueRefundProcessed(o)
    \/ QueueRelease(o)
    \/ QueueReleaseError(o)
    \/ ProcessTicketGeneration(o)
    \/ ProcessEmailNotification(o)

SecondStatement == \E o \in OrderIds : ReleaseTickets(o) \/ ReleaseError(o)

TierUpdate ==
  \E t \in TierIds : (\E price \in Prices : PutTierCheck(t, price)) \/ PutTierUpdate(t) \/ PutTierError(t)

Housekeeping ==
  \/ \E u \in Users : DeleteAccountCheck(u) \/ DeleteAccount(u) \/ DeleteAccountError(u)
  \/ \E old \in SUBSET OrderIds : CleanupExpiredData(old)

CheckIn == \E k \in TicketIds : ValidateCheck(k) \/ ValidateUpdate(k) \/ ValidateError(k)

ConsumerFailure == \E o \in OrderIds, failed \in TicketIds : TicketGenerationError(o, failed)

Next ==
  \/ Reservation \/ Cancellation \/ Webhook \/ Consumers \/ SecondStatement
  \/ TierUpdate \/ Housekeeping \/ ConsumerFailure \/ CheckIn

Spec == Init /\ [][Next]_vars

\* Concurrent reservations alone, with no settlement in between.
SpecR == Init /\ [][Reservation]_vars

\* Scenario A (the concurrency test): buyers 1 and 2 ask for 2 seats and for
\* 1 seat of tier 1 (quantity 2, nothing sold) at the same time.
ScenarioReqs == {1, 2}
ScenarioItem(r) == [tierId |-> 1, quantity |-> IF r = 1 THEN 2 ELSE 1]

ScenarioA ==
  \E r \in ScenarioReqs :
    \/ BeginOrder(r, 1)
    \/ ReserveItem(r, ScenarioItem(r), TRUE)
    \/ CommitOrder(r)
    \/ StoreError(r)

SpecA == Init /\ [][ScenarioA]_vars

\* Scenario C and its neighbours: one buyer's reservation, then any settlement
\* of it (cancels, Stripe events and their replays, queue consumers).
ScenarioC ==
  \/ PostOrder(1) \/ ValidateTickets(1) \/ CommitOrder(1) \/ StoreError(1)
  \/ Cancellation \/ Webhook \/ Consumers \/ SecondStatement

SpecC == Init /\ [][ScenarioC]_vars

\* One buyer's reservation and its settlement while the organizer edits tiers.
SpecP == Init /\ [][ScenarioC \/ TierUpdate]_vars

\* One buyer's reservation and its settlement beside account deletion and the
\* periodic cleanup.
SpecD == Init /\ [][ScenarioC \/ Housekeeping]_vars

\* The queue and its consumers keep running: a message waiting in a queue is
\* consumed (processed or rejected), and a handler past its first statement
\* runs its second.
ConsumersRun ==
  \A o \in OrderIds :
    /\ WF_vars(\E failed \in TicketIds :
                 ProcessTicketGeneration(o) \/ TicketGenerationError(o, failed))
    /\ WF_vars(ProcessEmailNotification(o))
    /\ WF_vars(ReleaseTickets(o) \/ ReleaseError(o))
    /\ WF_vars(QueueRelease(o) \/ QueueReleaseError(o))

\* One buyer's reservation and its settlement with the consumers running.
SpecL == Init /\ [][ScenarioC \/ ConsumerFailure]_vars /\ ConsumersRun

\* Every statement of a reservation returns or throws: a lock wait ends with the
\* lock, with the lock wait timeout or with the deadlock detector choosing a
\* victim, so a request in its transaction always takes its next step.
StatementsReturn ==
  \A r \in Reqs : WF_vars(ValidateTickets(r) \/ CommitOrder(r) \/ StoreError(r))

\* Two buyers' requests, with any bodies.
ScenarioT ==
  \E r \in ScenarioReqs : PostOrder(r) \/ ValidateTickets(r) \/ CommitOrder(r) \/ StoreError(r)

\* Two concurrent reservations whose statements all return.
SpecT == Init /\ [][ScenarioT]_vars /\ StatementsReturn

\* One buyer's reservation and its settlement beside the check-in at the door.
SpecV == Init /\ [][ScenarioC \/ CheckIn]_vars

\* ===================================================== claims
\* Ticket rows of order o in tier t.
TicketsIn(o, t) ==
  Cardinality({k \in DOMAIN tickets :
                 tickets[k].order_id = o /\ tickets[k].ticket_tier_id = t})

\* Seats of tier t held by orders in state pending or paid.
SeatsHeld(t) ==
  Cardinality({k \in DOMAIN tickets :
                 /\ tickets[k].ticket_tier_id = t
                 /\ tickets[k].order_id \in DOMAIN orders
                 /\ orders[tickets[k].order_id].status \in {"pending", "paid"}})

\* C1: no oversell - in every reachable state every tier's sold_quantity is at
\* most its quantity.
C1_NoOversell == \A t \in DOMAIN tiers : tiers[t].sold_quantity <= tiers[t].quantity

\* C2: sold_quantity is never driven below zero by reservations, cancels and
\* failure / cancellation events (replays included).
C2_SoldNeverNegative == \A t \in DOMAIN tiers : tiers[t].sold_quantity >= 0

\* C3: the seats held by pending or paid orders of a tier never exceed the
\* tier's quantity.
C3_HeldWithinQuantity == \A t \in DOMAIN tiers : SeatsHeld(t) <= tiers[t].quantity

\* Both requests of scenario A have been answered, and none with a 500.
ScenarioAnswered ==
  \A r \in ScenarioReqs : req[r].pc = "done" /\ req[r].status # ServerError

\* C4: of the two concurrent requests of scenario A exactly one is answered
\* 201 and the other 400.
C4_ExactlyOneAccepted ==
  ScenarioAnswered =>
    \E w \in ScenarioReqs :
      /\ req[w].status = Created
      /\ \A l \in ScenarioReqs \ {w} : req[l].status = BadRequest

\* C4 witness: the 2-seat request was accepted and the 1-seat request refused.
C4_Witness ==
  /\ req[1].pc = "done" /\ req[1].status = Created
  /\ req[2].pc = "done" /\ req[2].status = BadRequest

\* C5 as stated: after scenario A the tier's sold_quantity is 2 whichever
\* request got the row lock first.
C5_FinalSoldIsTwo == ScenarioAnswered => tiers[1].sold_quantity = 2

\* C5 amended: after scenario A the tier's sold_quantity is the quantity of the
\* accepted request - 2 when the 2-seat request won the lock, 1 when the 1-seat
\* request did.
C5_FinalSoldIsWinners ==
  ScenarioAnswered =>
    \A r \in ScenarioReqs :
      req[r].status = Created => tiers[1].sold_quantity = ScenarioItem(r).quantity

\* C5 witness: the 1-seat request won, and one seat is sold.
C5_Witness ==
  /\ req[2].pc = "done" /\ req[2].status = Created
  /\ req[1].pc = "done" /\ req[1].status = BadRequest
  /\ tiers[1].sold_quantity = 1

\* The requests whose transaction committed (answered 201, or 500 when only the
\* checkout session failed).
Committed == {r \in Reqs : req[r].pc = "done" /\ req[r].orderId # 0}

\* C6: a reservation leaves nothing behind unless it commits - with only
\* reservations running, every unit of sold_quantity is a ticket row, every
\* ticket row belongs to an order row, and every order row is the order of a
\* request that committed; a request refused at a later tier, or still in its
\* validation loop, has changed no tier and persisted no row.
C6_RejectedLeavesNothing ==
  /\ \A t \in DOMAIN tiers :
       tiers[t].sold_quantity = Cardinality({k \in DOMAIN tickets : tickets[k].ticket_tier_id = t})
  /\ \A k \in DOMAIN tickets : tickets[k].order_id \in DOMAIN orders
  /\ DOMAIN orders = {req[r].orderId : r \in Committed}

\* C6 witness: a request was refused at its second line item after its first
\* had passed, tier 2 being one that refuses every line item; nothing is sold,
\* no row is persisted and the row locks are free again.
C6_Witness ==
  \E r \in Reqs :
    /\ req[r].pc = "done" /\ req[r].status = BadRequest /\ req[r].validated = 1
    /\ \A q \in 1 .. MaxQty : ItemRejected(2, 1, q)
    /\ \A t \in DOMAIN tiers : tiers[t].sold_quantity = 0 /\ lockHolder[t] = 0
    /\ orders = <<>> /\ tickets = <<>>

\* C7: a buyer cancel that moves a pending order to cancelled lowers the
\* sold_quantity of every tier by exactly the number of the order's ticket rows
\* in that tier.
C7_ReleaseIsExact ==
  [][\A o \in DOMAIN orders :
       (orders[o].status = "pending" /\ CancelCommit(o)) =>
         \A t \in DOMAIN tiers :
           tiers'[t].sold_quantity = tiers[t].sold_quantity - TicketsIn(o, t)]_vars

\* C8: a payment_intent.succeeded event for an order that is already paid
\* publishes no further confirmation e-mail and no further ticket generation.
C8_ReplayPublishesNothing ==
  [][\A o \in DOMAIN orders :
       (orders[o].status = "paid" /\ HandlePaymentSuccess(o)) =>
         (emailQ' = emailQ /\ ticketQ' = ticketQ)]_vars

\* Every ticket of order o has had its QR code generated.
Issued(o) ==
  /\ \E k \in DOMAIN tickets : tickets[k].order_id = o
  /\ \A k \in DOMAIN tickets : tickets[k].order_id = o => tickets[k].qr_code # Null

\* C9: a success event changes no ticket row and no tier; ticket generation
\* adds no ticket row and keeps every ticket's code; run again on tickets that
\* are already issued it changes nothing.
C9_IssuanceIdempotent ==
  [][\A o \in OrderIds :
       /\ HandlePaymentSuccess(o) => (tickets' = tickets /\ tiers' = tiers)
       /\ ProcessTicketGeneration(o) =>
            /\ DOMAIN tickets' = DOMAIN tickets
            /\ \A k \in DOMAIN tickets : tickets'[k].ticket_code = tickets[k].ticket_code
            /\ tiers' = tiers
            /\ Issued(o) => tickets' = tickets]_vars

\* C9 witness: the success event of a paid order was delivered twice - its
\* tickets are issued and a second ticket-generation message is waiting.
C9_Witness ==
  \E o \in DOMAIN orders :
    orders[o].status = "paid" /\ Issued(o) /\ ticketQ[o] >= 1 /\ emailQ[o] >= 2

\* A payment event for order o is handled: success, failure or cancellation,
\* from the Stripe webhook or from the payment_webhooks queue.
PaymentEvent(o) ==
  \/ HandlePaymentSuccess(o)
  \/ HandlePaymentFailure(o)
  \/ HandlePaymentCanceled(o)
  \/ QueuePaymentSuccess(o)
  \/ QueuePaymentFailed(o)

\* C10: a payment event for an order that is no longer pending changes neither
\* its status nor, by a release it starts, any sold_quantity.
C10_SettledOrderUntouched ==
  [][\A o \in DOMAIN orders :
       (orders[o].status # "pending" /\ PaymentEvent(o)) =>
         (orders'[o].status = orders[o].status /\ releaseTx'[o] = releaseTx[o])]_vars
\* C11: a buyer cancel of the buyer's own order whose status is not pending is
\* answered 400 and changes no order, no tier and starts no cancel transaction.
C11_SettledCancelRefused ==
  [][\A u \in Users, o \in DOMAIN orders :
       (/\ orders[o].user_id = u
        /\ orders[o].status # "pending"
        /\ CancelCheck(u, o) \/ CancelRefuse(u, o)) =>
         /\ answer' = Answer("cancel", BadRequest)
         /\ orders' = orders /\ tiers' = tiers /\ cancelTx' = cancelTx]_vars

\* C11 witness: a cancel of an order that is already cancelled was answered 400.
C11_Witness ==
  /\ answer = Answer("cancel", BadRequest)
  /\ \E o \in DOMAIN orders : orders[o].status = "cancelled"

\* C12: a delivery whose signature is missing or does not verify changes no
\* order, ticket or tier, publishes no message and starts no handler.
C12_BadSignatureChangesNothing ==
  [][\A sig \in Signatures \ {"valid"}, o \in OrderIds :
       HandleWebhook(sig, o) =>
         /\ orders' = orders /\ tickets' = tickets /\ tiers' = tiers
         /\ emailQ' = emailQ /\ ticketQ' = ticketQ
         /\ releaseTx' = releaseTx]_vars

\* C12 witness: a delivery was rejected for its signature while an order was
\* pending, and the order is still pending.
C12_Witness ==
  /\ answer = Answer("webhook", BadRequest)
  /\ \E o \in DOMAIN orders : orders[o].status = "pending"

\* C13: when a handler of a verified event fails inside - a publishMessage of
\* handlePaymentSuccess throws, or the release UPDATE of a failure handler
\* throws - the endpoint answers with a 5xx status.
C13_HandlerFailureAnswers5xx ==
  [][\A o \in DOMAIN orders :
       ((\E sent \in 0 .. 1 : PaymentSuccess(o, sent)) \/ ReleaseError(o)) =>
         answer'[2] >= ServerError]_vars
\* C14: a reservation request answered with an error status has persisted
\* nothing - every order row is the order of a request that was answered 201.
C14_ErrorPersistsNothing ==
  \A o \in DOMAIN orders :
    \E r \in Reqs : req[r].pc = "done" /\ req[r].orderId = o /\ req[r].status = Created
\* The sum over line items ts of tier price x quantity, at the prices of tr.
RECURSIVE LineTotal(_, _)
LineTotal(tr, ts) ==
  IF ts = <<>> THEN 0
  ELSE tr[Head(ts).tierId].price * Head(ts).quantity + LineTotal(tr, Tail(ts))

\* C15: an order's total_amount is, at its creation, the sum over its line
\* items of the tier price (as it is under the row lock) times the quantity,
\* and no later step - tier price update, payment event, cancel - changes it.
C15_PriceSnapshot ==
  [][/\ \A r \in Reqs :
          CommitOrder(r) =>
            orders'[nextOrderId].total_amount = LineTotal(tiers, req[r].tickets)
     /\ \A o \in DOMAIN orders :
          o \in DOMAIN orders' /\ orders'[o].total_amount = orders[o].total_amount]_vars

\* C15 witness: a tier's price was changed after an order holding its tickets
\* was created; the order's total is still the old price times its tickets.
C15_Witness ==
  \E o \in DOMAIN orders, t \in DOMAIN tiers :
    /\ TicketsIn(o, t) > 0
    /\ tiers[t].price = NewPrice
    /\ orders[o].total_amount = TierPrice * Cardinality({k \in DOMAIN tickets : tickets[k].order_id = o})
\* Tier t is a tier of another event than ev, or is inactive.
TierUnavailable(t, ev) == tiers[t].event_id # ev \/ ~tiers[t].is_active

\* C16: a line item naming a tier that does not belong to the request's event,
\* or that is inactive, ends the request with 400 and no table changes.
C16_ForeignTierRefused ==
  [][\A r \in Reqs, item \in LineItems, last \in BOOLEAN :
       (TierUnavailable(item.tierId, req[r].eventId) /\ ReserveItem(r, item, last)) =>
         /\ req'[r].pc = "done" /\ req'[r].status = BadRequest
         /\ tiers' = tiers /\ orders' = orders /\ tickets' = tickets]_vars

\* C16 witness: tier 2 is inactive or of another event, and a request for
\* event 1 was refused at its second line item after a first item had passed;
\* nothing is sold (tier 1, with nothing sold, refuses no line item).
C16_Witness ==
  /\ TierUnavailable(2, 1)
  /\ \E r \in Reqs :
       req[r].pc = "done" /\ req[r].status = BadRequest /\ req[r].validated = 1
  /\ \A t \in DOMAIN tiers : tiers[t].sold_quantity = 0
  /\ orders = <<>>
\* C17: no step deletes an order row whose status is pending.
C17_PendingNeverDeleted ==
  [][\A o \in DOMAIN orders :
       orders[o].status = "pending" => o \in DOMAIN orders']_vars
\* C18: settlement is guarded by the order's state - of two settlement actions
\* that overlap only one takes effect: a buyer cancel that passed its check
\* writes only while the order is still pending, and a failure handler does
\* not release the seats of an order that a success event has made paid.
C18_StateGuardedSettlement ==
  [][\A o \in DOMAIN orders :
       /\ CancelCommit(o) => orders[o].status = "pending"
       /\ ReleaseTickets(o) => orders[o].status # "paid"]_vars

\* No settlement of order o is between its statements.
Quiescent(o) == cancelTx[o] = 0 /\ releaseTx[o] = 0 /\ queueTx[o] = 0

\* C19: once a path that cancels order o has ended (also by failing between its
\* two statements), a cancelled order's seats are not all still counted in
\* the sold_quantity of their tier.
C19_CancelledMeansReleased ==
  \A o \in DOMAIN orders :
    (orders[o].status = "cancelled" /\ Quiescent(o)) =>
      \A t \in DOMAIN tiers :
        TicketsIn(o, t) > 0 => tiers[t].sold_quantity < TicketsIn(o, t)

\* The seats of tier t that line items ts ask for.
RECURSIVE QuantityOf(_, _)
QuantityOf(ts, t) ==
  IF ts = <<>> THEN 0
  ELSE (IF Head(ts).tierId = t THEN Head(ts).quantity ELSE 0) + QuantityOf(Tail(ts), t)

\* C20: a request is committed only if, for every tier it lists, the sum of
\* its line items of that tier fits in the tier's remaining capacity.
C20_SumOfLineItemsFits ==
  [][\A r \in Reqs :
       CommitOrder(r) =>
         \A t \in DOMAIN tiers :
           QuantityOf(req[r].tickets, t) > 0 =>
             QuantityOf(req[r].tickets, t) <= tiers[t].quantity - tiers[t].sold_quantity]_vars
\* No request is in flight: no reservation between its begin and its answer,
\* no cancel or failure handler between its check and its last statement.
NoRequestInFlight ==
  /\ \A r \in Reqs : req[r].pc \in {"idle", "done"}
  /\ \A o \in OrderIds : Quiescent(o)

\* C21: ledger conservation - in every state with no request in flight, each
\* tier's sold_quantity equals the number of its ticket rows that belong to
\* orders in state pending or paid.  (States with a refunded order are left
\* aside: a refund releases no seat, whatever the claim makes of that.)
C21_LedgerConservation ==
  (NoRequestInFlight /\ \A o \in DOMAIN orders : orders[o].status # "refunded") =>
    \A t \in DOMAIN tiers : tiers[t].sold_quantity = SeatsHeld(t)
\* C22: reservations against one tier are serialized by its row lock with no
\* lost update - while a request holds a tier's lock no other step changes the
\* row, so the capacity check read every committed increment; a commit raises
\* each tier by the sum of its line items; and with reservations alone every
\* change of a tier is such a commit.
C22_NoLostUpdate ==
  [][/\ \A r \in Reqs, t \in DOMAIN tiers :
          (lockHolder[t] = r /\ ~CommitOrder(r)) => tiers'[t] = tiers[t]
     /\ \A r \in Reqs :
          CommitOrder(r) =>
            \A t \in DOMAIN tiers :
              tiers'[t].sold_quantity = tiers[t].sold_quantity + QuantityOf(req[r].tickets, t)
     /\ tiers' # tiers => \E r \in Reqs : CommitOrder(r)]_vars

\* C22 witness: two requests issued together have both committed one seat of
\* tier 1, and both seats are counted.
C22_Witness ==
  /\ \A r \in {1, 2} : req[r].pc = "done" /\ req[r].status = Created
  /\ Cardinality(DOMAIN tickets) = 2
  /\ tiers[1].sold_quantity = 2
\* Order o is in state paid, made so by a payment_intent.succeeded event.
Paid(o) ==
  /\ o \in DOMAIN orders
  /\ orders[o].status = "paid"
  /\ orders[o].stripe_payment_intent_id = PaymentIntentId(o)

\* C23: every order that a success event makes paid eventually has its tickets
\* issued (its issuance request published and processed), unless it stops
\* being paid.
C23_PaidLeadsToIssued ==
  \A o \in OrderIds : Paid(o) ~> (Issued(o) \/ ~Paid(o))
\* The transaction of request r is open.
InTransaction(r) == req[r].pc \in {"lock", "write"}

C25_RefundedOnlyFromPaid ==
  [][\A o \in DOMAIN orders :
       (QueueRefundProcessed(o) /\ orders[o].status # "paid") =>
         orders'[o].status = orders[o].status]_vars
\* C26: check-in marks a ticket used only if the ticket's order is in state
\* paid - tickets of pending or cancelled orders are refused and stay unchanged.
C26_CheckInOnlyPaid ==
  [][\A k \in DOMAIN tickets :
       ValidateUpdate(k) =>
         \/ orders[tickets[k].order_id].status = "paid"
         \/ tickets' = tickets]_vars

\* C27: a tier is changed by PUT /tickets/tiers/:id only while none of its
\* seats is reserved (sold_quantity = 0), also when the update runs
\* concurrently with a reservation for that tier.
C27_TierChangedOnlyUnsold ==
  [][\A t \in DOMAIN tiers : PutTierUpdate(t) => tiers[t].sold_quantity = 0]_vars

\* C28: a ticket is checked in at most once - no check-in request succeeds on
\* a ticket that is already used, and used_at, once set, is not changed.
C28_CheckedInOnce ==
  [][\A k \in DOMAIN tickets :
       tickets[k].status = "used" =>
         /\ ~ValidateUpdate(k)
         /\ tickets'[k].used_at = tickets[k].used_at]_vars
\* C29: a checkout.session.completed event only records the session reference
\* on the order - it changes no other column of the order (its status
\* included), no other order, no ticket, no tier's sold_quantity, publishes no
\* message and starts no release.
C29_CheckoutOnlyRecordsSession ==
  [][\A o \in OrderIds :
       HandleCheckoutCompleted(o) =>
         /\ orders' = IF o \in DOMAIN orders
                        THEN [orders EXCEPT ![o].stripe_session_id = SessionId(o)]
                        ELSE orders
         /\ tickets' = tickets /\ tiers' = tiers
         /\ emailQ' = emailQ /\ ticketQ' = ticketQ
         /\ releaseTx' = releaseTx /\ cancelTx' = cancelTx]_vars

\* C29 witness: the session reference is recorded on an order that is still
\* pending, its seat still counted and its ticket not issued; no message is
\* waiting in a queue.
C29_Witness ==
  \E o \in DOMAIN orders :
    /\ orders[o].stripe_session_id = SessionId(o)
    /\ orders[o].status = "pending"
    /\ \E t \in DOMAIN tiers : TicketsIn(o, t) > 0 /\ tiers[t].sold_quantity = TicketsIn(o, t)
    /\ ~Issued(o)
    /\ emailQ[o] = 0 /\ ticketQ[o] = 0
\* A handler of a verified payment event for order o runs a statement.
VerifiedEventStep(o) ==
  \/ HandlePaymentSuccess(o) \/ HandlePaymentFailure(o) \/ HandlePaymentCanceled(o)
  \/ HandleCheckoutCompleted(o) \/ ReleaseTickets(o) \/ ReleaseError(o)

\* The handler of the event for order o returns, and handleWebhook answers.
VerifiedEventAnswered(o) ==
  \/ HandlePaymentSuccess(o) \/ HandleCheckoutCompleted(o)
  \/ ReleaseTickets(o) \/ ReleaseError(o)

\* C30: a verified payment event naming an order that does not exist changes
\* no order, ticket or tier, publishes no message, and is answered 200.
C30_UnknownOrderAcknowledged ==
  [][\A o \in OrderIds \ DOMAIN orders :
       /\ VerifiedEventStep(o) =>
            /\ orders' = orders /\ tickets' = tickets /\ tiers' = tiers
            /\ emailQ' = emailQ /\ ticketQ' = ticketQ
       /\ VerifiedEventAnswered(o) => answer' = Answer("webhook", Ok)]_vars

\* C30 witness: a failure event for an order id that does not exist has run its
\* first statement, the delivery before it was answered 200; the order that
\* does exist is still pending with its seats counted, and no message is
\* waiting.
C30_Witness ==
  \E o \in OrderIds \ DOMAIN orders :
    /\ releaseTx[o] > 0 /\ nEvents = 2
    /\ answer = Answer("webhook", Ok)
    /\ \E p \in DOMAIN orders :
         /\ orders[p].status = "pending"
         /\ \A t \in DOMAIN tiers : tiers[t].sold_quantity = TicketsIn(p, t)
    /\ \A p \in OrderIds : emailQ[p] = 0 /\ ticketQ[p] = 0
====
